---- MODULE Spec2Model ----
(***************************************************************************)
(* PesoPilot: the premium review workflow (src/app/api/premium.ts), the    *)
(* budget upsert (src/app/api/budget.ts) and the row policies of           *)
(* supabase/schema.sql that the store applies to every query.              *)
(***************************************************************************)
EXTENDS Integers, Sequences, FiniteSets, TLC

(* ---------------- bounds ---------------- *)
MaxTime == 5
MaxReq == 2
MaxBudgets == 2
NSlots == 2

(* ---------------- program constants ---------------- *)
PRICE == 199

Users == {"u1", "u2"}
Admins == {"u1"}
NoUser == "nobody"
Callers == Users \cup {NoUser}
NoTime == 0
NoBudget == 0
NoFile == "null"
FileExts == {"png"}
NoArg == ""
NoData == [null |-> TRUE]
Slots == 1..NSlots

\* a component that is not on the page, and localStorage without the entry
Unmounted == [mounted |-> FALSE]
NoCache == [null |-> TRUE]
Browser0 == [session |-> NoUser, clock |-> 0, localStorage |-> NoCache, AIInsights |-> Unmounted]
BudgetInputs == {<<0, "monthly">>, <<100, "weekly">>, <<200, "monthly">>}

VARIABLES
  profiles,          \* table profiles: id -> row
  premium_requests,  \* table premium_requests: sequence of rows, id = index
  storage,           \* bucket "payments": set of stored object paths
  now,               \* the clock read by Date.now(), new Date() and NOW()
  budgets,           \* table budgets: sequence of rows, id = index
  calls,             \* setBudget invocations in flight, one per slot
  last,              \* the last completed call: operation, inputs, result
  expenses,          \* table expenses: set of rows, each with its id
  expenseSeq,        \* the id the next inserted expense row receives
  today,             \* the server's local calendar day, as a day number
  hour,              \* the server's local hour of the day
  tz,                \* the server's offset from UTC in hours (local = UTC + tz)
  openaiConfigured,  \* whether OPENAI_API_KEY is set, so that the client exists
  financialData,     \* the snapshot the insights component computed last
  fallbackLog,       \* a fallback answer of the insights endpoint, kept for comparison
  browser,           \* one browser: its session, its clock, localStorage, the AIInsights component
  dashboard,         \* the state of DashboardPage, its loads in flight and its timers
  dialogs            \* the state of the components that issue the mutating actions

ledgerVars == <<expenses, expenseSeq, today, hour, tz>>
insightVars == <<openaiConfigured, financialData, fallbackLog>>
clientVars == <<browser, dashboard, dialogs>>
vars == <<profiles, premium_requests, storage, now, budgets, calls, last, ledgerVars, insightVars, clientVars>>

(* ---------------- rows ---------------- *)
FreeProfile == [is_premium |-> FALSE, premium_type |-> "free", premium_since |-> NoTime]
LifetimeProfile(t) == [is_premium |-> TRUE, premium_type |-> "lifetime", premium_since |-> t]

\* variant: the amount is read from the form
NewRequest_formAmount(uid, url, formData, t) ==
  [user_id |-> uid, status |-> "pending", payment_proof_url |-> url,
   amount_paid |-> formData.amount_paid, reviewed_by |-> NoUser,
   reviewed_at |-> NoTime, created_at |-> t]

\* the row inserted by submitPremiumRequest, with the defaults of the table
NewRequest(uid, url, formData, t) ==
  [user_id |-> uid, status |-> "pending", payment_proof_url |-> url,
   amount_paid |-> PRICE, reviewed_by |-> NoUser, reviewed_at |-> NoTime,
   created_at |-> t]

\* a completed call: its inputs, the store round trip that reported an error
\* ("none" when each one answered), the value returned
Ret(op, caller, arg, fault, result, list) ==
  [op |-> op, caller |-> caller, arg |-> arg, fault |-> fault,
   result |-> result, list |-> list]

(* ---------------- row policies (schema.sql) ---------------- *)
IsAdmin(caller) == caller \in Users /\ profiles[caller].is_premium

\* "Users can view own premium requests" OR "Admins can view all premium requests"
CanSelectRequest(caller, row) == caller = row.user_id \/ IsAdmin(caller)

\* "Admins can update premium requests"
CanUpdateRequest(caller, row) == IsAdmin(caller)

\* "Users can update own profile"
CanUpdateProfile(caller, id) == caller = id

\* variant: the review does not record the reviewer
UpdateRequest_noReviewer(caller, requestId, status, t) ==
  [i \in DOMAIN premium_requests |->
     IF i = requestId /\ CanUpdateRequest(caller, premium_requests[i])
       THEN [premium_requests[i] EXCEPT !.status = status, !.reviewed_at = t]
       ELSE premium_requests[i]]

\* UPDATE premium_requests SET ... WHERE id = requestId, as the caller
UpdateRequest(caller, requestId, status, t) ==
  [i \in DOMAIN premium_requests |->
     IF i = requestId /\ CanUpdateRequest(caller, premium_requests[i])
       THEN [premium_requests[i] EXCEPT !.status = status,
                                        !.reviewed_by = caller,
                                        !.reviewed_at = t]
       ELSE premium_requests[i]]

\* UPDATE profiles SET ... WHERE id = target, as the caller
UpdateProfile(caller, target, row) ==
  [p \in Users |->
     IF p = target /\ CanUpdateProfile(caller, p) THEN row ELSE profiles[p]]

(* ---------------- premium.ts ---------------- *)
FormDatas == [payment_proof : FileExts \cup {NoFile}, amount_paid : {1, PRICE}]

\* variant: the path does not carry the uploader's id
FileName_noOwner(uid, t, ext) == [owner |-> NoUser, ts |-> t, ext |-> ext]

FileName(uid, t, ext) == [owner |-> uid, ts |-> t, ext |-> ext]

StoreUnchanged == UNCHANGED <<profiles, premium_requests, storage, budgets, calls, ledgerVars, insightVars, clientVars>>

\* the outcome of one store round trip: it answers, or it reports an error
Outcomes == {"ok", "error"}

\* variant: the proof is not checked before the upload
submitPremiumRequest_noProofCheck(caller, formData) ==
  LET op(fault, res) == Ret("submitPremiumRequest", caller, formData, fault, res, <<>>)
      fileName == FileName(caller, now, formData.payment_proof)
  IN
  IF caller = NoUser THEN
    /\ last' = op("none", "Not authenticated")
    /\ UNCHANGED now /\ StoreUnchanged
  ELSE
    /\ now < MaxTime
    /\ now' = now + 1
    /\ UNCHANGED <<profiles, budgets, calls, ledgerVars, insightVars, clientVars>>
    /\ storage' = storage \cup {fileName}
    /\ Len(premium_requests) < MaxReq
    /\ premium_requests' =
         Append(premium_requests, NewRequest(caller, fileName, formData, now))
    /\ last' = op("none", "success")

submitPremiumRequest(caller, formData) ==
  LET op(fault, res) == Ret("submitPremiumRequest", caller, formData, fault, res, <<>>)
      fileName == FileName(caller, now, formData.payment_proof)
  IN
  IF caller = NoUser THEN
    /\ last' = op("none", "Not authenticated")
    /\ UNCHANGED now /\ StoreUnchanged
  ELSE IF formData.payment_proof = NoFile THEN
    /\ last' = op("none", "Payment proof is required")
    /\ UNCHANGED now /\ StoreUnchanged
  ELSE
    /\ now < MaxTime
    /\ now' = now + 1
    /\ UNCHANGED <<profiles, budgets, calls, ledgerVars, insightVars, clientVars>>
    /\ \E upload \in Outcomes :
         IF upload = "error" \/ fileName \in storage THEN
           /\ last' = op(IF upload = "error" THEN "upload" ELSE "none", "Failed to upload payment proof")
           /\ UNCHANGED <<premium_requests, storage>>
         ELSE
           /\ storage' = storage \cup {fileName}
           /\ \E insert \in Outcomes :
                IF insert = "error" THEN
                  /\ last' = op("insert", "Failed to submit premium request")
                  /\ UNCHANGED premium_requests
                ELSE
                  /\ Len(premium_requests) < MaxReq
                  /\ premium_requests' =
                       Append(premium_requests, NewRequest(caller, fileName, formData, now))
                  /\ last' = op("none", "success")

\* variant: ORDER BY created_at ASC
RECURSIVE NewestFirst_ascending(_)
NewestFirst_ascending(ids) ==
  IF ids = {} THEN <<>>
  ELSE LET top == CHOOSE i \in ids :
                    \A j \in ids : premium_requests[i].created_at
                                     <= premium_requests[j].created_at
       IN <<top>> \o NewestFirst_ascending(ids \ {top})

\* ORDER BY created_at DESC over the rows with the given ids
RECURSIVE NewestFirst(_)
NewestFirst(ids) ==
  IF ids = {} THEN <<>>
  ELSE LET top == CHOOSE i \in ids :
                    \A j \in ids : premium_requests[j].created_at
                                     <= premium_requests[i].created_at
       IN <<top>> \o NewestFirst(ids \ {top})

\* SELECT ... FROM premium_requests WHERE status = 'pending', as the caller
PendingVisibleTo(caller) ==
  {i \in DOMAIN premium_requests :
     /\ CanSelectRequest(caller, premium_requests[i])
     /\ premium_requests[i].status = "pending"}

getPendingRequests(caller) ==
  LET op(fault, list) == Ret("getPendingRequests", caller, NoArg, fault, "list", list)
  IN
  /\ UNCHANGED now /\ StoreUnchanged
  /\ IF caller = NoUser THEN last' = op("none", <<>>)
     ELSE \E profile \in Outcomes :
       IF profile = "error" \/ ~profiles[caller].is_premium
         THEN last' = op(IF profile = "error" THEN "profile" ELSE "none", <<>>)
         ELSE \E select \in Outcomes :
           IF select = "error"
             THEN last' = op("select", <<>>)
             ELSE last' = op("none", NewestFirst(PendingVisibleTo(caller)))

\* variant: the status update is undone when the profile update fails
approvePremiumRequest_rollback(caller, requestId) ==
  LET op(fault, res) == Ret("approvePremiumRequest", caller, requestId, fault, res, <<>>)
  IN
  IF caller = NoUser THEN
    /\ last' = op("none", "Not authenticated")
    /\ UNCHANGED now /\ StoreUnchanged
  ELSE IF \/ requestId \notin DOMAIN premium_requests
          \/ ~CanSelectRequest(caller, premium_requests[requestId]) THEN
    /\ last' = op("none", "Request not found")
    /\ UNCHANGED now /\ StoreUnchanged
  ELSE
    /\ now < MaxTime
    /\ now' = now + 1
    /\ UNCHANGED <<storage, budgets, calls, ledgerVars, insightVars, clientVars>>
    /\ \E profile \in Outcomes :
         IF profile = "error" THEN
           /\ last' = op("profile", "Failed to upgrade user")
           /\ UNCHANGED <<premium_requests, profiles>>
         ELSE
           /\ premium_requests' = UpdateRequest(caller, requestId, "approved", now)
           /\ profiles' = UpdateProfile(caller, premium_requests[requestId].user_id,
                                        LifetimeProfile(now))
           /\ last' = op("none", "success")

approvePremiumRequest(caller, requestId) ==
  LET op(fault, res) == Ret("approvePremiumRequest", caller, requestId, fault, res, <<>>)
  IN
  IF caller = NoUser THEN
    /\ last' = op("none", "Not authenticated")
    /\ UNCHANGED now /\ StoreUnchanged
  ELSE IF \/ requestId \notin DOMAIN premium_requests
          \/ ~CanSelectRequest(caller, premium_requests[requestId]) THEN
    /\ last' = op("none", "Request not found")
    /\ UNCHANGED now /\ StoreUnchanged
  ELSE \E select \in Outcomes :
    IF select = "error" THEN
      /\ last' = op("select", "Request not found")
      /\ UNCHANGED now /\ StoreUnchanged
    ELSE
      /\ now < MaxTime
      /\ now' = now + 1
      /\ UNCHANGED <<storage, budgets, calls, ledgerVars, insightVars, clientVars>>
      /\ \E update \in Outcomes :
           IF update = "error" THEN
             /\ last' = op("update", "Failed to approve request")
             /\ UNCHANGED <<premium_requests, profiles>>
           ELSE
             /\ premium_requests' = UpdateRequest(caller, requestId, "approved", now)
             /\ \E profile \in Outcomes :
                  IF profile = "error" THEN
                    /\ last' = op("profile", "Failed to upgrade user")
                    /\ UNCHANGED profiles
                  ELSE
                    /\ profiles' = UpdateProfile(caller,
                                                 premium_requests[requestId].user_id,
                                                 LifetimeProfile(now))
                    /\ last' = op("none", "success")

\* variant: a rejection also resets the profile, mirroring the approval
rejectPremiumRequest_downgrade(caller, requestId) ==
  LET op(fault, res) == Ret("rejectPremiumRequest", caller, requestId, fault, res, <<>>)
  IN
  IF caller = NoUser THEN
    /\ last' = op("none", "Not authenticated")
    /\ UNCHANGED now /\ StoreUnchanged
  ELSE
    /\ now < MaxTime
    /\ now' = now + 1
    /\ UNCHANGED <<storage, budgets, calls, ledgerVars, insightVars, clientVars>>
    /\ premium_requests' = UpdateRequest(caller, requestId, "rejected", now)
    /\ profiles' = IF requestId \in DOMAIN premium_requests
                     THEN UpdateProfile(caller, premium_requests[requestId].user_id,
                                        FreeProfile)
                     ELSE profiles
    /\ last' = op("none", "success")

rejectPremiumRequest(caller, requestId) ==
  LET op(fault, res) == Ret("rejectPremiumRequest", caller, requestId, fault, res, <<>>)
  IN
  IF caller = NoUser THEN
    /\ last' = op("none", "Not authenticated")
    /\ UNCHANGED now /\ StoreUnchanged
  ELSE
    /\ now < MaxTime
    /\ now' = now + 1
    /\ UNCHANGED <<profiles, storage, budgets, calls, ledgerVars, insightVars, clientVars>>
    /\ \E update \in Outcomes :
         IF update = "error" THEN
           /\ last' = op("update", "Failed to reject request")
           /\ UNCHANGED premium_requests
         ELSE
           /\ premium_requests' = UpdateRequest(caller, requestId, "rejected", now)
           /\ last' = op("none", "success")

upgradeToLifetime(caller, userId) ==
  LET op(fault, res) == Ret("upgradeToLifetime", caller, userId, fault, res, <<>>)
      targetUserId == IF userId = NoArg THEN caller ELSE userId
  IN
  IF caller = NoUser THEN
    /\ last' = op("none", "Not authenticated")
    /\ UNCHANGED now /\ StoreUnchanged
  ELSE
    /\ now < MaxTime
    /\ now' = now + 1
    /\ UNCHANGED <<premium_requests, storage, budgets, calls, ledgerVars, insightVars, clientVars>>
    /\ \E update \in Outcomes :
         IF update = "error" THEN
           /\ last' = op("update", "error.message")
           /\ UNCHANGED profiles
         ELSE
           /\ profiles' = UpdateProfile(caller, targetUserId, LifetimeProfile(now))
           /\ last' = op("none", "success")

\* variant: the downgrade leaves premium_since as it was
downgradeToFree_keepsSince(caller, userId) ==
  LET op(fault, res) == Ret("downgradeToFree", caller, userId, fault, res, <<>>)
      targetUserId == IF userId = NoArg THEN caller ELSE userId
  IN
  /\ UNCHANGED now
  /\ UNCHANGED <<premium_requests, storage, budgets, calls, ledgerVars, insightVars, clientVars>>
  /\ IF caller = NoUser THEN
       /\ last' = op("none", "Not authenticated")
       /\ UNCHANGED profiles
     ELSE \E update \in Outcomes :
       IF update = "error" THEN
         /\ last' = op("update", "error.message")
         /\ UNCHANGED profiles
       ELSE
         /\ profiles' = [p \in Users |->
              IF p = targetUserId /\ CanUpdateProfile(caller, p)
                THEN [profiles[p] EXCEPT !.is_premium = FALSE, !.premium_type = "free"]
                ELSE profiles[p]]
         /\ last' = op("none", "success")

downgradeToFree(caller, userId) ==
  LET op(fault, res) == Ret("downgradeToFree", caller, userId, fault, res, <<>>)
      targetUserId == IF userId = NoArg THEN caller ELSE userId
  IN
  /\ UNCHANGED now
  /\ UNCHANGED <<premium_requests, storage, budgets, calls, ledgerVars, insightVars, clientVars>>
  /\ IF caller = NoUser THEN
       /\ last' = op("none", "Not authenticated")
       /\ UNCHANGED profiles
     ELSE \E update \in Outcomes :
       IF update = "error" THEN
         /\ last' = op("update", "error.message")
         /\ UNCHANGED profiles
       ELSE
         /\ profiles' = UpdateProfile(caller, targetUserId, FreeProfile)
         /\ last' = op("none", "success")

(* ---------------- the premium workflow ---------------- *)
NoCall == Ret("none", NoUser, NoArg, "none", "none", <<>>)
IdleCall == [pc |-> "idle", user |-> NoUser, amount |-> 0, period |-> "monthly", existing |-> NoBudget]

Init ==
  /\ profiles = [u \in Users |-> IF u \in Admins THEN LifetimeProfile(1) ELSE FreeProfile]
  /\ premium_requests = <<>>
  /\ storage = {}
  /\ now = 2
  /\ budgets = <<>>
  /\ calls = [s \in Slots |-> IdleCall]
  /\ last = NoCall
  /\ expenses = {}
  /\ expenseSeq = 1
  /\ today = 61
  /\ hour = 12
  /\ tz = 0
  /\ openaiConfigured = FALSE
  /\ financialData = NoData
  /\ fallbackLog = <<>>
  /\ browser = Browser0
  /\ dashboard = Unmounted
  /\ dialogs = Unmounted

Next ==
  \/ \E c \in Callers, fd \in FormDatas : submitPremiumRequest(c, fd)
  \/ \E c \in Callers : getPendingRequests(c)
  \/ \E c \in Callers, id \in 1..(MaxReq + 1) : approvePremiumRequest(c, id)
  \/ \E c \in Callers, id \in 1..(MaxReq + 1) : rejectPremiumRequest(c, id)
  \/ \E c \in Callers, t \in Users \cup {NoArg} : upgradeToLifetime(c, t)
  \/ \E c \in Callers, t \in Users \cup {NoArg} : downgradeToFree(c, t)

Spec == Init /\ [][Next]_vars

(* ---------------- claims on the premium workflow ---------------- *)
Reviewed(row) == row.status \in {"approved", "rejected"}
Approve == "approvePremiumRequest"
Reject == "rejectPremiumRequest"
Submit == "submitPremiumRequest"
GetPending == "getPendingRequests"

\* C1: a request leaves `pending` at most once: once its status is approved or
\* rejected, no later call changes its status, its reviewer or its review time.
C1_ReviewedIsFinal ==
  [][\A i \in DOMAIN premium_requests :
       Reviewed(premium_requests[i]) =>
         /\ premium_requests'[i].status = premium_requests[i].status
         /\ premium_requests'[i].reviewed_by = premium_requests[i].reviewed_by
         /\ premium_requests'[i].reviewed_at = premium_requests[i].reviewed_at]_vars

\* C2: approvePremiumRequest called by an identity whose own profile is not
\* premium changes no premium_requests row and no profile.
C2_ApproveNeedsPremium ==
  [][(/\ last'.op = Approve
      /\ last'.caller \in Users
      /\ ~profiles[last'.caller].is_premium)
     => (premium_requests' = premium_requests /\ profiles' = profiles)]_vars

\* C3: a profile that was free initially becomes premium only in an approval,
\* by a premium reviewer, of a request owned by that user.
C3_PremiumOnlyByReview ==
  [][\A u \in Users \ Admins :
       (~profiles[u].is_premium /\ profiles'[u].is_premium) =>
         /\ last'.op = Approve
         /\ IsAdmin(last'.caller)
         /\ last'.arg \in DOMAIN premium_requests
         /\ premium_requests[last'.arg].user_id = u
         /\ premium_requests'[last'.arg].status = "approved"]_vars

\* C4: when approvePremiumRequest returns success to a premium reviewer, the
\* request is approved with reviewed_by the caller and the profile of the
\* request's owner is premium with type lifetime.
C4_ApproveUpgradesOwner ==
  [][(last'.op = Approve /\ last'.result = "success" /\ IsAdmin(last'.caller)) =>
       LET r == premium_requests'[last'.arg] IN
         /\ r.status = "approved"
         /\ r.reviewed_by = last'.caller
         /\ profiles'[r.user_id].is_premium
         /\ profiles'[r.user_id].premium_type = "lifetime"]_vars

\* C5: when the status update of approvePremiumRequest succeeds and the profile
\* update fails, the call returns an error, the request stays approved (by the
\* caller, at the time of the call) and every profile is left as it was.
C5_NoRollbackNoRetry ==
  [][(last'.op = Approve /\ last'.fault = "profile") =>
       /\ last'.result # "success"
       /\ profiles' = profiles
       /\ IsAdmin(last'.caller) =>
            /\ premium_requests'[last'.arg].status = "approved"
            /\ premium_requests'[last'.arg].reviewed_by = last'.caller
            /\ premium_requests'[last'.arg].reviewed_at = now]_vars

C5_Witness ==
  /\ last.op = Approve /\ last.fault = "profile"
  /\ last.caller # premium_requests[last.arg].user_id
  /\ premium_requests[last.arg].status = "approved"
  /\ ~profiles[premium_requests[last.arg].user_id].is_premium

\* C6: rejectPremiumRequest(requestId) changes only status, reviewed_by and
\* reviewed_at of the request with that id; every profile and every other
\* request is left as it was.
C6_RejectFrame ==
  [][last'.op = Reject =>
       /\ profiles' = profiles
       /\ DOMAIN premium_requests' = DOMAIN premium_requests
       /\ \A i \in DOMAIN premium_requests :
            IF i = last'.arg
              THEN premium_requests'[i] =
                     [premium_requests[i] EXCEPT
                        !.status = premium_requests'[i].status,
                        !.reviewed_by = premium_requests'[i].reviewed_by,
                        !.reviewed_at = premium_requests'[i].reviewed_at]
              ELSE premium_requests'[i] = premium_requests[i]]_vars

C6_Witness ==
  /\ last.op = Reject /\ last.result = "success"
  /\ Len(premium_requests) = 2
  /\ premium_requests[last.arg].status = "rejected"
  /\ premium_requests[last.arg].user_id = last.caller
  /\ profiles[last.caller].is_premium

\* C7: submitPremiumRequest creates no row when the caller is unauthenticated,
\* when no proof is attached or when storing the proof fails; it returns an
\* error, and in the first two cases it stores no artifact.
C7_SubmitFailures ==
  [][(/\ last'.op = Submit
      /\ \/ last'.caller = NoUser
         \/ last'.arg.payment_proof = NoFile
         \/ last'.fault = "upload")
     => /\ last'.result # "success"
        /\ premium_requests' = premium_requests
        /\ (last'.caller = NoUser \/ last'.arg.payment_proof = NoFile)
             => storage' = storage]_vars

C7_Witness ==
  /\ last.op = Submit
  /\ last.caller \in Users
  /\ last.arg.payment_proof = NoFile
  /\ last.result = "Payment proof is required"
  /\ premium_requests = <<>> /\ storage = {}

\* C8: every row created by submitPremiumRequest is owned by the caller, is
\* pending and has amount_paid = 199 whatever the form carried; no operation
\* changes the amount_paid or the owner of an existing request.
C8_FixedPriceAndOwner ==
  [][/\ \A i \in DOMAIN premium_requests' \ DOMAIN premium_requests :
          /\ last'.op = Submit
          /\ premium_requests'[i].user_id = last'.caller
          /\ premium_requests'[i].status = "pending"
          /\ premium_requests'[i].amount_paid = 199
     /\ \A i \in DOMAIN premium_requests :
          /\ i \in DOMAIN premium_requests'
          /\ premium_requests'[i].amount_paid = premium_requests[i].amount_paid
          /\ premium_requests'[i].user_id = premium_requests[i].user_id]_vars

C8_Witness ==
  /\ last.op = Submit /\ last.result = "success"
  /\ last.arg.amount_paid = 1
  /\ premium_requests[Len(premium_requests)].user_id = last.caller
  /\ premium_requests[Len(premium_requests)].amount_paid = 199

\* the list is exactly the pending requests, newest first
ExactlyPendingNewestFirst(list) ==
  /\ \A k \in DOMAIN list :
       list[k] \in DOMAIN premium_requests /\ premium_requests[list[k]].status = "pending"
  /\ \A i \in DOMAIN premium_requests :
       premium_requests[i].status = "pending" => \E k \in DOMAIN list : list[k] = i
  /\ \A k, m \in DOMAIN list :
       k < m => premium_requests[list[k]].created_at > premium_requests[list[m]].created_at

\* C9 (as claimed): getPendingRequests returns the empty list to an
\* unauthenticated or non-premium caller, and to a premium caller exactly the
\* requests that are pending, newest first.
C9_PendingList ==
  last.op = GetPending =>
    IF IsAdmin(last.caller) THEN ExactlyPendingNewestFirst(last.list)
    ELSE last.list = <<>>

\* C9 (amended): getPendingRequests returns the empty list to an unauthenticated
\* or non-premium caller and whenever its profile lookup or its request query
\* reports an error; to a premium caller whose two queries answer, it returns
\* exactly the requests that are pending, newest first.
C9_PendingListUnlessError ==
  last.op = GetPending =>
    IF IsAdmin(last.caller) /\ last.fault = "none"
      THEN ExactlyPendingNewestFirst(last.list)
      ELSE last.list = <<>>

C9_Witness ==
  /\ last.op = GetPending /\ last.fault = "none"
  /\ Len(last.list) = 2
  /\ premium_requests[last.list[1]].user_id # premium_requests[last.list[2]].user_id

(* ---------------- budget.ts ---------------- *)

NewBudget(uid, amount, period) == [user_id |-> uid, amount |-> amount, period |-> period]

\* "Users can view own budgets", "Users can update own budgets"
CanSelectBudget(caller, row) == caller = row.user_id
CanUpdateBudget(caller, row) == caller = row.user_id

\* CHECK (amount > 0), CHECK (period IN ('weekly', 'monthly'))
BudgetChecks(amount, period) == amount > 0 /\ period \in {"weekly", "monthly"}

\* SELECT id FROM budgets WHERE user_id = caller, as the caller
BudgetIdsOf(caller) ==
  {i \in DOMAIN budgets : CanSelectBudget(caller, budgets[i]) /\ budgets[i].user_id = caller}

\* .single(): the row when exactly one row answers the query, null otherwise
Single(ids) == IF Cardinality(ids) = 1 THEN CHOOSE i \in ids : TRUE ELSE NoBudget

\* UPDATE budgets SET amount, period WHERE id = budgetId, as the caller
UpdateBudgetRow(caller, budgetId, amount, period) ==
  [i \in DOMAIN budgets |->
     IF i = budgetId /\ CanUpdateBudget(caller, budgets[i])
       THEN [budgets[i] EXCEPT !.amount = amount, !.period = period]
       ELSE budgets[i]]

Touches(caller, budgetId) ==
  budgetId \in DOMAIN budgets /\ CanUpdateBudget(caller, budgets[budgetId])

BudgetArg(amount, period) == [amount |-> amount, period |-> period]

PremiumUnchanged == UNCHANGED <<profiles, premium_requests, storage, now, ledgerVars, insightVars, clientVars>>

\* setBudget up to the answer of its existence check
setBudgetCheck(s, caller, amount, period) ==
  /\ calls[s].pc = "idle"
  /\ PremiumUnchanged
  /\ UNCHANGED budgets
  /\ IF caller = NoUser THEN
       /\ last' = Ret("setBudget", caller, BudgetArg(amount, period), "none",
                      "Not authenticated", <<>>)
       /\ UNCHANGED calls
     ELSE \E select \in Outcomes :
       /\ calls' = [calls EXCEPT ![s] =
            [pc |-> "write", user |-> caller, amount |-> amount, period |-> period,
             existing |-> IF select = "error" THEN NoBudget
                          ELSE Single(BudgetIdsOf(caller))]]
       /\ UNCHANGED last

\* setBudget from its write to its return
setBudgetWrite(s) ==
  LET c == calls[s]
      op(fault, res) == Ret("setBudget", c.user, BudgetArg(c.amount, c.period), fault, res, <<>>)
  IN
  /\ c.pc = "write"
  /\ PremiumUnchanged
  /\ calls' = [calls EXCEPT ![s] = IdleCall]
  /\ \E write \in Outcomes :
       IF c.existing # NoBudget THEN
         IF write = "error" \/ (Touches(c.user, c.existing)
                                 /\ ~BudgetChecks(c.amount, c.period)) THEN
           /\ last' = op(IF write = "error" THEN "update" ELSE "check", "error.message")
           /\ UNCHANGED budgets
         ELSE
           /\ budgets' = UpdateBudgetRow(c.user, c.existing, c.amount, c.period)
           /\ last' = op("none", "success")
       ELSE
         IF write = "error" \/ ~BudgetChecks(c.amount, c.period) THEN
           /\ last' = op(IF write = "error" THEN "insert" ELSE "check", "error.message")
           /\ UNCHANGED budgets
         ELSE
           /\ Len(budgets) < MaxBudgets
           /\ budgets' = Append(budgets, NewBudget(c.user, c.amount, c.period))
           /\ last' = op("none", "success")

updateBudget(caller, budgetId, amount, period) ==
  LET op(fault, res) == Ret("updateBudget", caller, BudgetArg(amount, period), fault, res, <<>>)
  IN
  /\ PremiumUnchanged
  /\ UNCHANGED calls
  /\ \E write \in Outcomes :
       IF write = "error" \/ (Touches(caller, budgetId)
                               /\ ~BudgetChecks(amount, period)) THEN
         /\ last' = op(IF write = "error" THEN "update" ELSE "check", "error.message")
         /\ UNCHANGED budgets
       ELSE
         /\ budgets' = UpdateBudgetRow(caller, budgetId, amount, period)
         /\ last' = op("none", "success")

NextBudget ==
  \/ \E s \in Slots, c \in Callers, b \in BudgetInputs : setBudgetCheck(s, c, b[1], b[2])
  \/ \E s \in Slots : setBudgetWrite(s)
  \/ \E c \in Callers, id \in 1..MaxBudgets, b \in BudgetInputs :
       updateBudget(c, id, b[1], b[2])

SpecBudget == Init /\ [][NextBudget]_vars

(* ---------------- claims on the budget ---------------- *)
BudgetRowsOf(u) == {i \in DOMAIN budgets : budgets[i].user_id = u}

\* C10: after any interleaving of setBudget calls the budgets table holds at
\* most one row per owner, and after a call that succeeded the owner's row
\* carries the amount and the period of that call.
C10_OneBudgetPerOwner ==
  /\ \A u \in Users : Cardinality(BudgetRowsOf(u)) <= 1
  /\ (last.op = "setBudget" /\ last.result = "success") =>
       \A i \in BudgetRowsOf(last.caller) :
         budgets[i].amount = last.arg.amount /\ budgets[i].period = last.arg.period

(* ---------------- the calendar ---------------- *)
\* Day numbers count from 2025-12-01, a Monday. A DATE column and the
\* YYYY-MM-DD text of a date are both the day number: the order of the texts
\* is the order of the days.
MonthStarts == {0, 31, 62, 90}
Days == 31..89
Zones == {-5, 0, 8}

\* Date.getDay(): 0 is Sunday
getDay(d) == (d + 1) % 7

\* new Date(now.getFullYear(), now.getMonth(), 1), as a local day
FirstOfMonth(d) == CHOOSE m \in MonthStarts : m <= d /\ \A n \in MonthStarts : n <= d => n <= m

\* new Date(now.getFullYear(), now.getMonth() + 1, 0), as a local day
LastOfMonth(d) == (CHOOSE m \in MonthStarts : m > d /\ \A n \in MonthStarts : n > d => m <= n) - 1

\* date.toISOString().split("T")[0] for the instant at local hour h of local
\* day d: the calendar day of that instant in UTC
toISODate(d, h) == (d * 24 + h - tz) \div 24

(* ---------------- the expense ledger ---------------- *)
MaxExpenses == 2
NoCategory == "null"

ExpenseInputs ==
  {<<0, "Food", 45>>, <<1000, "Food", 45>>, <<2000, "Food", 61>>, <<500, "", 30>>}
LedgerZones == {0, 8}

NewExpense(id, uid, amount, category, date) ==
  [id |-> id, user_id |-> uid, amount |-> amount, category |-> category, date |-> date]

ExpenseArg(amount, category, date) == [amount |-> amount, category |-> category, date |-> date]

\* amount NUMERIC CHECK (amount > 0), category TEXT NOT NULL
ExpenseChecks(amount, category) == amount > 0 /\ category # NoCategory

\* "Users can view / insert / delete own expenses"
CanSelectExpense(caller, row) == caller = row.user_id
CanInsertExpense(caller, row) == caller = row.user_id
\* variant: the delete policy lets every caller through
CanDeleteExpense_anyone(caller, row) == TRUE

CanDeleteExpense(caller, row) == caller = row.user_id

LedgerFrame ==
  UNCHANGED <<profiles, premium_requests, storage, now, budgets, calls, today, hour, tz,
              insightVars, clientVars>>

addExpense(caller, amount, category, date) ==
  LET op(fault, res, rows) ==
        Ret("addExpense", caller, ExpenseArg(amount, category, date), fault, res, rows)
      row == NewExpense(expenseSeq, caller, amount, category, date)
  IN
  /\ LedgerFrame
  /\ IF caller = NoUser THEN
       /\ last' = op("none", "Not authenticated", <<>>)
       /\ UNCHANGED <<expenses, expenseSeq>>
     ELSE \E insert \in Outcomes :
       IF insert = "error" \/ ~ExpenseChecks(amount, category)
          \/ ~CanInsertExpense(caller, row) THEN
         /\ last' = op(IF insert = "error" THEN "insert" ELSE "check", "error.message", <<>>)
         /\ UNCHANGED <<expenses, expenseSeq>>
       ELSE
         /\ expenseSeq <= MaxExpenses
         /\ expenses' = expenses \cup {row}
         /\ expenseSeq' = expenseSeq + 1
         /\ last' = op("none", "success", <<row>>)

deleteExpense(caller, expenseId) ==
  LET op(fault, res) == Ret("deleteExpense", caller, expenseId, fault, res, <<>>)
  IN
  /\ LedgerFrame
  /\ UNCHANGED expenseSeq
  /\ \E delete \in Outcomes :
       IF delete = "error" THEN
         /\ last' = op("delete", "error.message")
         /\ UNCHANGED expenses
       ELSE
         /\ expenses' = {e \in expenses : ~(e.id = expenseId /\ CanDeleteExpense(caller, e))}
         /\ last' = op("none", "success")

(* ---------------- the budget summary ---------------- *)
RECURSIVE GCD(_, _)
GCD(a, b) == IF b = 0 THEN a ELSE GCD(b, a % b)

\* the number n / d, in lowest terms
Frac(n, d) == LET g == GCD(n, d) IN [num |-> n \div g, den |-> d \div g]

\* expenses.reduce((sum, exp) => sum + Number(exp.amount), 0)
RECURSIVE SumAmounts(_)
SumAmounts(rows) ==
  IF rows = {} THEN 0
  ELSE LET e == CHOOSE r \in rows : TRUE IN e.amount + SumAmounts(rows \ {e})

\* .order("date", { ascending: false })
RECURSIVE DateDescending(_)
DateDescending(rows) ==
  IF rows = {} THEN <<>>
  ELSE LET e == CHOOSE r \in rows : \A q \in rows :
                  q.date < r.date \/ (q.date = r.date /\ q.id >= r.id)
       IN <<e>> \o DateDescending(rows \ {e})

\* SELECT * FROM expenses WHERE user_id = caller AND date >= gte AND date <= lte,
\* as the caller
ExpensesBetween(caller, gte, lte) ==
  {e \in expenses : /\ CanSelectExpense(caller, e)
                    /\ e.user_id = caller
                    /\ e.date >= gte
                    /\ e.date <= lte}

\* the start of the period, as a local midnight
periodStart(period) ==
  IF period = "weekly" THEN today - getDay(today) ELSE FirstOfMonth(today)

\* the end of the period, as a local midnight
periodEnd(period) ==
  IF period = "weekly" THEN periodStart(period) + 6 ELSE LastOfMonth(today)

\* variant: Math.min(percentageUsed, 100) is left out
percentageUsed_uncapped(totalSpent, budgetAmount) ==
  IF budgetAmount > 0 THEN Frac(totalSpent * 100, budgetAmount) ELSE Frac(0, 1)

\* budgetAmount > 0 ? (totalSpent / budgetAmount) * 100 : 0, then Math.min(.., 100)
percentageUsed(totalSpent, budgetAmount) ==
  IF budgetAmount > 0 /\ totalSpent * 100 <= 100 * budgetAmount
    THEN Frac(totalSpent * 100, budgetAmount)
    ELSE IF budgetAmount > 0 THEN Frac(100, 1) ELSE Frac(0, 1)

\* variant: the difference is not clamped at 0
remaining_unclamped(totalSpent, budgetAmount) == budgetAmount - totalSpent

\* Math.max(0, budgetAmount - totalSpent)
remaining(totalSpent, budgetAmount) ==
  IF budgetAmount - totalSpent > 0 THEN budgetAmount - totalSpent ELSE 0

\* budget: null in a summary
NoBudgetRow == [user_id |-> NoUser, amount |-> 0, period |-> "none"]

Summary(budget, totalSpent, rem, pct) ==
  [budget |-> budget, totalSpent |-> totalSpent, remaining |-> rem, percentageUsed |-> pct]

ReadFrame ==
  UNCHANGED <<profiles, premium_requests, storage, now, budgets, calls, ledgerVars, insightVars, clientVars>>

getBudgetSummary(caller) ==
  /\ ReadFrame
  /\ IF caller = NoUser THEN
       last' = Ret("getBudgetSummary", caller, NoArg, "none",
                   Summary(NoBudgetRow, 0, 0, Frac(0, 1)), <<>>)
     ELSE \E selectBudget \in Outcomes, selectExpenses \in Outcomes :
       LET id == IF selectBudget = "error" THEN NoBudget ELSE Single(BudgetIdsOf(caller))
           period == IF id # NoBudget THEN budgets[id].period ELSE "monthly"
           gte == toISODate(periodStart(period), 0)
           lte == toISODate(periodEnd(period), 0)
           rows == IF selectExpenses = "error" THEN {} ELSE ExpensesBetween(caller, gte, lte)
           totalSpent == SumAmounts(rows)
           budgetAmount == IF id # NoBudget THEN budgets[id].amount ELSE 0
       IN last' = Ret("getBudgetSummary", caller, [gte |-> gte, lte |-> lte],
                      IF selectExpenses = "error" THEN "expenses"
                      ELSE IF selectBudget = "error" THEN "budget" ELSE "none",
                      Summary(IF id # NoBudget THEN budgets[id] ELSE NoBudgetRow, totalSpent,
                              remaining(totalSpent, budgetAmount),
                              percentageUsed(totalSpent, budgetAmount)),
                      DateDescending(rows))

\* budgets tables that setBudget leaves behind
LedgerTables ==
  {<<>>,
   <<NewBudget("u1", 5000, "monthly")>>,
   <<NewBudget("u1", 1000, "weekly")>>,
   <<NewBudget("u2", 1000, "weekly"), NewBudget("u1", 5000, "monthly")>>}

InitLedger ==
  /\ profiles = [u \in Users |-> IF u \in Admins THEN LifetimeProfile(1) ELSE FreeProfile]
  /\ premium_requests = <<>>
  /\ storage = {}
  /\ now = 2
  /\ budgets \in LedgerTables
  /\ calls = [s \in Slots |-> IdleCall]
  /\ last = NoCall
  /\ expenses = {}
  /\ expenseSeq = 1
  /\ today = 61
  /\ hour = 12
  /\ tz \in LedgerZones
  /\ openaiConfigured = FALSE
  /\ financialData = NoData
  /\ fallbackLog = <<>>
  /\ browser = Browser0
  /\ dashboard = Unmounted
  /\ dialogs = Unmounted

NextLedger ==
  \/ \E c \in Callers, x \in ExpenseInputs : addExpense(c, x[1], x[2], x[3])
  \/ \E c \in Callers, id \in 1..MaxExpenses : deleteExpense(c, id)
  \/ \E c \in Callers : getBudgetSummary(c)

SpecLedger == InitLedger /\ [][NextLedger]_vars

\* the budget summary on its own, over the calendar and the time zones
InitPeriod ==
  /\ profiles = [u \in Users |-> IF u \in Admins THEN LifetimeProfile(1) ELSE FreeProfile]
  /\ premium_requests = <<>>
  /\ storage = {}
  /\ now = 2
  /\ budgets \in LedgerTables
  /\ calls = [s \in Slots |-> IdleCall]
  /\ last = NoCall
  /\ expenses = {}
  /\ expenseSeq = 1
  /\ today \in Days
  /\ hour = 12
  /\ tz \in Zones
  /\ openaiConfigured = FALSE
  /\ financialData = NoData
  /\ fallbackLog = <<>>
  /\ browser = Browser0
  /\ dashboard = Unmounted
  /\ dialogs = Unmounted

NextPeriod == \E c \in Callers : getBudgetSummary(c)

SpecPeriod == InitPeriod /\ [][NextPeriod]_vars

(* ---------------- claims on the budget summary ---------------- *)
IsSummary == last.op = "getBudgetSummary"
SummaryBudget == IF last.result.budget = NoBudgetRow THEN 0 ELSE last.result.budget.amount
OwnBudgets(u) == {i \in DOMAIN budgets : budgets[i].user_id = u}
OwnExpensesIn(u, from, to) ==
  {e \in expenses : e.user_id = u /\ from <= e.date /\ e.date <= to}

\* C11: the summary's remaining is max(0, budget - totalSpent) and its
\* percentageUsed is min(100, totalSpent / budget * 100) when the budget is
\* positive and 0 otherwise; so remaining >= 0 and 0 <= percentageUsed <= 100,
\* and a budget of 5000 with 3000 spent gives 2000 and 60.
C11_RemainingAndPercentage ==
  IsSummary =>
    LET r == last.result
        B == SummaryBudget
        T == r.totalSpent
        pct == r.percentageUsed
    IN /\ B >= 0 /\ T >= 0
       /\ r.remaining = (IF B - T >= 0 THEN B - T ELSE 0)
       /\ r.remaining >= 0
       /\ pct.den > 0 /\ pct.num >= 0 /\ pct.num <= 100 * pct.den
       /\ (B > 0 /\ T <= B) => pct.num * B = T * 100 * pct.den
       /\ (B > 0 /\ T > B) => pct.num = 100 * pct.den
       /\ B = 0 => pct.num = 0
       /\ (B = 5000 /\ T = 3000) => r.remaining = 2000 /\ pct = [num |-> 60, den |-> 1]

C11_Witness ==
  /\ IsSummary
  /\ SummaryBudget = 5000
  /\ last.result.totalSpent = 3000
  /\ last.result.remaining = 2000
  /\ last.result.percentageUsed = [num |-> 60, den |-> 1]

\* C12: totalSpent is the sum of the amounts of exactly the caller's expenses
\* dated within the current period of the budget (the week from Sunday to
\* Saturday, or the calendar month), both ends included.
C12_TotalOfOwnExpensesInPeriod ==
  (IsSummary /\ last.caller \in Users /\ last.fault = "none") =>
    LET period == IF last.result.budget = NoBudgetRow THEN "monthly"
                  ELSE last.result.budget.period
    IN last.result.totalSpent =
         SumAmounts(OwnExpensesIn(last.caller, periodStart(period), periodEnd(period)))

\* C13: for every current day and every time-zone offset of the server the
\* bounds sent to the store are, for a weekly budget, the most recent Sunday
\* (today on a Sunday) and the sixth day after it, and otherwise the first
\* and the last day of the current calendar month.
C13_PeriodBounds ==
  (IsSummary /\ last.caller \in Users) =>
    LET weekly == last.result.budget # NoBudgetRow /\ last.result.budget.period = "weekly"
        sunday == CHOOSE d \in (today - 6)..today : getDay(d) = 0
        first == CHOOSE m \in MonthStarts : m <= today /\ \A n \in MonthStarts : n <= m \/ n > today
        next == CHOOSE m \in MonthStarts : m > today /\ \A n \in MonthStarts : n <= today \/ n >= m
    IN IF weekly THEN last.arg.gte = sunday /\ last.arg.lte = sunday + 6
       ELSE last.arg.gte = first /\ last.arg.lte = next - 1

\* C14 as stated: without a budget the summary is empty, totalSpent included,
\* whatever expenses the caller has.
C14_EmptyWithoutBudget ==
  (IsSummary /\ OwnBudgets(last.caller) = {}) =>
    /\ last.result.budget = NoBudgetRow
    /\ last.result.totalSpent = 0
    /\ last.result.remaining = 0
    /\ last.result.percentageUsed = [num |-> 0, den |-> 1]

\* C14: without a budget the summary has budget none, remaining 0 and
\* percentageUsed 0, while totalSpent is the sum of the caller's expenses
\* dated within the month bounds sent to the store, and 0 when the query for
\* the expenses reports an error.
C14_NoAllowanceWithoutBudget ==
  (IsSummary /\ OwnBudgets(last.caller) = {}) =>
    /\ last.result.budget = NoBudgetRow
    /\ last.result.remaining = 0
    /\ last.result.percentageUsed = [num |-> 0, den |-> 1]
    /\ last.result.totalSpent =
         (IF last.caller = NoUser \/ last.fault = "expenses" THEN 0
          ELSE SumAmounts(OwnExpensesIn(last.caller, last.arg.gte, last.arg.lte)))

C14_Witness ==
  /\ IsSummary
  /\ last.caller \in Users
  /\ OwnBudgets(last.caller) = {}
  /\ last.result.budget = NoBudgetRow
  /\ last.result.totalSpent > 0
  /\ last.result.remaining = 0

\* C15: without a budget the summary has budget none, remaining 0,
\* percentageUsed 0 and totalSpent the sum of the caller's expenses dated in
\* the current calendar month.
C15_MonthTotalWithoutBudget ==
  (IsSummary /\ last.caller \in Users /\ OwnBudgets(last.caller) = {}
     /\ last.fault = "none") =>
    /\ last.result.budget = NoBudgetRow
    /\ last.result.remaining = 0
    /\ last.result.percentageUsed = [num |-> 0, den |-> 1]
    /\ last.result.totalSpent =
         SumAmounts(OwnExpensesIn(last.caller, FirstOfMonth(today), LastOfMonth(today)))

(* ---------------- claims on the expense ledger ---------------- *)
\* C16: addExpense inserts only for an authenticated caller, an amount above
\* 0 and a non-empty category, and fails otherwise leaving the table as it
\* was; a success adds exactly one row, owned by the caller, and returns it;
\* every expense row has an amount above 0 and a non-empty category.
C16_AddExpenseValidates ==
  /\ \A e \in expenses : e.amount > 0 /\ e.category # ""
  /\ (last.op = "addExpense" /\ last.result = "success") =>
       /\ last.caller \in Users
       /\ last.arg.amount > 0
       /\ last.arg.category # ""
       /\ Len(last.list) = 1
       /\ last.list[1].user_id = last.caller
       /\ last.list[1] \in expenses

Delete == last'.op = "deleteExpense"
DeleteTarget == {e \in expenses : e.id = last'.arg /\ e.user_id = last'.caller}

\* C17 as stated: deleteExpense removes at most the expense with the given id,
\* and only the caller's own; for an id of another user's expense or of no
\* expense it returns success and leaves every row as it was.
C17_DeleteOwnOnly ==
  [][Delete =>
       /\ expenses' \subseteq expenses
       /\ expenses \ expenses' \subseteq DeleteTarget
       /\ DeleteTarget = {} => (last'.result = "success" /\ expenses' = expenses)]_vars

\* C17: deleteExpense removes at most the expense with the given id, and only
\* the caller's own; for an id of another user's expense or of no expense it
\* leaves every row as it was and returns success, unless the store reports
\* an error, in which case it returns the failure.
C17_DeleteOwnOnlyUnlessError ==
  [][Delete =>
       /\ expenses' \subseteq expenses
       /\ expenses \ expenses' \subseteq DeleteTarget
       /\ DeleteTarget = {} =>
            /\ expenses' = expenses
            /\ last'.result = (IF last'.fault = "none" THEN "success" ELSE "error.message")]_vars

C17_Witness ==
  /\ last.op = "deleteExpense"
  /\ last.result = "success"
  /\ \E e \in expenses : e.id = last.arg /\ e.user_id # last.caller

(* ---------------- spending over time ---------------- *)
SeriesLengths == {7, 14, 30}
SeriesDays == {61, 62}
SeriesHours == {3, 12}

\* endDate and startDate are two readings of the clock, startDate the later
\* one: after days steps of one day currentDate is the instant of the second
\* reading, which is <= endDate only when both fell in the same millisecond.
getSpendingOverTime(caller, days) ==
  LET op(fault, list) == Ret("getSpendingOverTime", caller, days, fault, "none", list)
  IN
  /\ ReadFrame
  /\ IF caller = NoUser THEN last' = op("none", <<>>)
     ELSE \E select \in Outcomes, sameMillisecond \in BOOLEAN :
       LET start == today - days
           gte == toISODate(start, hour)
           lte == toISODate(today, hour)
           rows == ExpensesBetween(caller, gte, lte)
           dailyTotals(dateStr) == SumAmounts({e \in rows : e.date = dateStr})
           rounds == IF sameMillisecond THEN days + 1 ELSE days
           entry(k) == LET dateStr == toISODate(start + k - 1, hour)
                       IN [date |-> dateStr, amount |-> dailyTotals(dateStr)]
       IN last' = IF select = "error" THEN op("expenses", <<>>)
                  ELSE op("none", [k \in 1..rounds |-> entry(k)])

InitSeries ==
  /\ profiles = [u \in Users |-> IF u \in Admins THEN LifetimeProfile(1) ELSE FreeProfile]
  /\ premium_requests = <<>>
  /\ storage = {}
  /\ now = 2
  /\ budgets = <<>>
  /\ calls = [s \in Slots |-> IdleCall]
  /\ last = NoCall
  /\ expenses = {}
  /\ expenseSeq = 1
  /\ today \in SeriesDays
  /\ hour \in SeriesHours
  /\ tz \in LedgerZones
  /\ openaiConfigured = FALSE
  /\ financialData = NoData
  /\ fallbackLog = <<>>
  /\ browser = Browser0
  /\ dashboard = Unmounted
  /\ dialogs = Unmounted

NextSeries ==
  \/ \E c \in Callers, x \in ExpenseInputs : addExpense(c, x[1], x[2], x[3])
  \/ \E c \in Callers, n \in SeriesLengths : getSpendingOverTime(c, n)

SpecSeries == InitSeries /\ [][NextSeries]_vars

\* C18: for an authenticated caller and N in {7, 14, 30}, getSpendingOverTime(N)
\* returns exactly N entries, one per calendar day, consecutive and ascending,
\* each with the sum of the caller's expenses of that day (0 if none).
C18_OneEntryPerDay ==
  (last.op = "getSpendingOverTime" /\ last.caller \in Users /\ last.fault = "none") =>
    /\ Len(last.list) = last.arg
    /\ \A k \in 1..(Len(last.list) - 1) : last.list[k + 1].date = last.list[k].date + 1
    /\ \A k \in 1..Len(last.list) :
         last.list[k].amount = SumAmounts(OwnExpensesIn(last.caller, last.list[k].date,
                                                        last.list[k].date))

(* ---------------- the financial snapshot ---------------- *)
\* Math.round(n / d) for n >= 0 and d > 0
Round(n, d) == (2 * n + d) \div (2 * d)

\* variant: 75 percent already counts as high
riskLevel_from75(percentUsed) ==
  IF percentUsed >= 75 THEN "high" ELSE IF percentUsed >= 40 THEN "moderate" ELSE "low"

riskLevel(percentUsed) ==
  IF percentUsed > 75 THEN "high" ELSE IF percentUsed >= 40 THEN "moderate" ELSE "low"

\* new Date(e.date) >= thirtyDaysAgo: the date alone is read as midnight UTC
IsRecent(e) == e.date * 24 >= (today - 30) * 24 + hour - tz

RECURSIVE SumSeq(_)
SumSeq(xs) == IF xs = <<>> THEN 0 ELSE Head(xs).amount + SumSeq(Tail(xs))

\* Object.entries(categoryTotals).sort((a, b) => b[1] - a[1])[0]?.[0] || "None"
topCategory(exps) ==
  LET cats == {exps[i].category : i \in DOMAIN exps}
      total(c) == SumSeq(SelectSeq(exps, LAMBDA e : e.category = c))
      first(c) == CHOOSE i \in DOMAIN exps :
                    exps[i].category = c /\ \A j \in 1..(i - 1) : exps[j].category # c
      top == CHOOSE c \in cats : \A d \in cats :
               total(c) > total(d) \/ (total(c) = total(d) /\ first(c) <= first(d))
  IN IF cats = {} THEN "None" ELSE IF top = "" THEN "None" ELSE top

FinancialData(summary, exps) ==
  LET totalSpent == summary.totalSpent
      budget == summary.budget.amount
      percentUsed == IF budget > 0 THEN Round(totalSpent * 100, budget) ELSE 0
      recentExpenses == SelectSeq(exps, IsRecent)
      dailyAverage == IF Len(recentExpenses) > 0 THEN Round(SumSeq(recentExpenses), 30) ELSE 0
      projectedDays == IF dailyAverage > 0 /\ budget > totalSpent
                         THEN (budget - totalSpent) \div dailyAverage ELSE 0
  IN [budget |-> budget,
      total_spent |-> totalSpent,
      percent_used |-> percentUsed,
      daily_average |-> dailyAverage,
      projected_days_remaining |-> projectedDays,
      top_category |-> topCategory(exps),
      risk_level |-> riskLevel(percentUsed)]

\* summaries getBudgetSummary can return, as <<budget amount, total spent>>
SummaryInputs ==
  {Summary(IF x[1] = 0 THEN NoBudgetRow ELSE NewBudget("u1", x[1], "monthly"), x[2],
           remaining(x[2], x[1]), percentageUsed(x[2], x[1])) :
     x \in {<<0, 0>>, <<0, 500>>, <<100, 39>>, <<100, 40>>, <<100, 75>>, <<100, 76>>,
            <<100, 120>>, <<1000, 754>>}}

\* lists getExpenses can return
ExpenseLists ==
  {<<>>,
   <<NewExpense(1, "u1", 300, "Food", 45)>>,
   <<NewExpense(2, "u1", 500, "", 61), NewExpense(1, "u1", 300, "Food", 30)>>}

InsightFrame ==
  UNCHANGED <<profiles, premium_requests, storage, now, budgets, calls, ledgerVars, clientVars>>

calculateFinancialData(summary, exps) ==
  /\ InsightFrame
  /\ UNCHANGED <<openaiConfigured, fallbackLog>>
  /\ financialData' = FinancialData(summary, exps)
  /\ last' = Ret("calculateFinancialData", NoUser, NoArg, "none", "none", <<>>)

(* ---------------- the insights endpoint ---------------- *)

Insight(icon, title, description, type) ==
  [icon |-> icon, title |-> title, description |-> description, type |-> type]

\* variant: the last insight is not pushed
generateFallbackInsights_three(data) ==
  << Insight("check", "Budget Healthy",
             <<"Great job! Only ", data.percent_used, "% used.">>, "success"),
     Insight("trend", "Daily Spending",
             <<"Your daily average is ", data.daily_average, data.projected_days_remaining>>,
             IF data.projected_days_remaining < 7 THEN "warning" ELSE "tip"),
     Insight("lightbulb", "Top Category Focus",
             <<data.top_category, " is your biggest expense.">>, "tip") >>

\* descriptions are the template's opening words and the values filled in
generateFallbackInsights(data) ==
  << IF data.risk_level = "high" THEN
       Insight("alert", "Budget Critical",
               <<"You've used ", data.percent_used, "% of your budget.">>, "alert")
     ELSE IF data.risk_level = "moderate" THEN
       Insight("warning", "Budget Warning",
               <<"You're at ", data.percent_used, "% budget usage.">>, "warning")
     ELSE
       Insight("check", "Budget Healthy",
               <<"Great job! Only ", data.percent_used, "% used.">>, "success"),
     Insight("trend", "Daily Spending",
             <<"Your daily average is ", data.daily_average, data.projected_days_remaining>>,
             IF data.projected_days_remaining < 7 THEN "warning" ELSE "tip"),
     Insight("lightbulb", "Top Category Focus",
             <<data.top_category, " is your biggest expense.">>, "tip"),
     Insight("trend", "Savings Potential",
             IF data.percent_used < 50
               THEN <<"You're on track to save ", data.budget - data.total_spent>>
               ELSE <<"Reduce discretionary spending ", data.budget>>,
             IF data.percent_used < 50 THEN "success" ELSE "warning") >>

\* what the completion's content can be: nothing, a JSON array of insights
\* (four, or another number), an array inside a ```json fence, or prose
AiInsight == Insight("trend", "Spending Pattern", <<"Set a weekly limit.", 0>>, "warning")
AiContents == {"empty", "array4", "array2", "fenced", "prose"}

\* variant: JSON.parse takes every content
ParsesAsJson_all(content) == TRUE

\* content.match(..)[0] keeps the fence, so JSON.parse takes only a bare array
ParsesAsJson(content) == content \in {"array4", "array2"}

\* JSON.parse(jsonString)
Parsed(content) ==
  IF content = "array4" THEN <<AiInsight, AiInsight, AiInsight, AiInsight>>
  ELSE <<AiInsight, AiInsight>>

\* the response, and with it what the endpoint received from the external API:
\* api has one entry per completion requested, "threw" or the content returned
Response(status, source, note, api) ==
  [status |-> status, source |-> source, note |-> note, api |-> api]

\* a fallback answer kept for comparison, with the condition of the API it
\* was given under: each new one may or may not take the place of the old
Logged(data, api, insights) ==
  {fallbackLog, <<[data |-> data, api |-> api, insights |-> insights]>>}

\* variant: the profile is looked up and its is_premium is not read
PremiumVerified_anyProfile(caller, select) == select = "ok"

\* profile?.is_premium, with profile null when the lookup failed
PremiumVerified(caller, select) == select = "ok" /\ profiles[caller].is_premium

POST(caller, body) ==
  LET op(fault, response, insights) == Ret("POST", caller, body, fault, response, insights)
      fallback == generateFallbackInsights(body)
  IN
  /\ InsightFrame
  /\ UNCHANGED <<openaiConfigured, financialData>>
  /\ \E session \in Outcomes, select \in Outcomes, json \in Outcomes :
       IF session = "error" THEN
         /\ last' = op("session", Response(500, "none", "Failed to generate insights", <<>>), <<>>)
         /\ UNCHANGED fallbackLog
       ELSE IF caller = NoUser THEN
         /\ last' = op("none", Response(401, "none", "Not authenticated", <<>>), <<>>)
         /\ UNCHANGED fallbackLog
       ELSE IF ~PremiumVerified(caller, select) THEN
         /\ last' = op(IF select = "error" THEN "select" ELSE "none",
                       Response(403, "none", "Premium required", <<>>), <<>>)
         /\ UNCHANGED fallbackLog
       ELSE IF json = "error" THEN
         /\ last' = op("json", Response(500, "none", "Failed to generate insights", <<>>), <<>>)
         /\ UNCHANGED fallbackLog
       ELSE IF body = NoData THEN
         /\ last' = op("none", Response(400, "none", "Financial data required", <<>>), <<>>)
         /\ UNCHANGED fallbackLog
       ELSE IF ~openaiConfigured THEN
         /\ last' = op("none", Response(200, "fallback", "Add OPENAI_API_KEY", <<>>), fallback)
         /\ fallbackLog' \in Logged(body, "unconfigured", fallback)
       ELSE \E completion \in Outcomes, content \in AiContents :
         IF completion = "error" \/ content = "empty" THEN
           /\ last' = op(IF completion = "error" THEN "openai" ELSE "content",
                         Response(200, "fallback", "AI service temporarily unavailable",
                                  <<IF completion = "error" THEN "threw" ELSE content>>),
                         fallback)
           /\ fallbackLog' \in Logged(body, "unavailable", fallback)
         ELSE IF ~ParsesAsJson(content) THEN
           /\ last' = op("parse", Response(200, "ai", "none", <<content>>), fallback)
           /\ fallbackLog' \in Logged(body, "unparsed", fallback)
         ELSE
           /\ last' = op("none", Response(200, "ai", "none", <<content>>), Parsed(content))
           /\ UNCHANGED fallbackLog

InitInsights ==
  /\ profiles = [u \in Users |-> IF u \in Admins THEN LifetimeProfile(1) ELSE FreeProfile]
  /\ premium_requests = <<>>
  /\ storage = {}
  /\ now = 2
  /\ budgets = <<>>
  /\ calls = [s \in Slots |-> IdleCall]
  /\ last = NoCall
  /\ expenses = {}
  /\ expenseSeq = 1
  /\ today = 61
  /\ hour = 12
  /\ tz \in LedgerZones
  /\ openaiConfigured \in BOOLEAN
  /\ financialData = NoData
  /\ fallbackLog = <<>>
  /\ browser = Browser0
  /\ dashboard = Unmounted
  /\ dialogs = Unmounted

NextInsights ==
  \/ \E summary \in SummaryInputs, exps \in ExpenseLists : calculateFinancialData(summary, exps)
  \/ \E c \in Callers : POST(c, financialData)

SpecInsights == InitInsights /\ [][NextInsights]_vars

(* ---------------- claims on the insights ---------------- *)
UsedFallback == last.op = "POST" /\ last.fault \in {"none", "openai", "content", "parse"}
                  /\ last.result.status = 200
                  /\ (last.result.source = "fallback" \/ last.fault = "parse")

C20_RiskTierAndProjection ==
  financialData # NoData =>
    LET d == financialData
        left == d.budget - d.total_spent
    IN /\ d.risk_level = "high" <=> d.percent_used > 75
       /\ d.risk_level = "moderate" <=> (40 <= d.percent_used /\ d.percent_used <= 75)
       /\ d.risk_level = "low" <=> d.percent_used < 40
       /\ d.percent_used = 75 => d.risk_level = "moderate"
       /\ d.percent_used = 76 => d.risk_level = "high"
       /\ (d.daily_average = 0 \/ d.total_spent >= d.budget) => d.projected_days_remaining = 0
       /\ (d.daily_average > 0 /\ d.total_spent < d.budget) =>
            /\ d.projected_days_remaining * d.daily_average <= left
            /\ left < (d.projected_days_remaining + 1) * d.daily_average

C20_Witness ==
  /\ financialData # NoData
  /\ financialData.percent_used = 76
  /\ financialData.risk_level = "high"
  /\ financialData.daily_average = 10
  /\ financialData.projected_days_remaining = 2

(* ---------------- claims on the insights endpoint ---------------- *)
PastTheChecks ==
  /\ last.op = "POST"
  /\ last.caller \in Users
  /\ profiles[last.caller].is_premium
  /\ last.arg # NoData
  /\ last.fault \notin {"session", "select", "json"}

ExternalFailure ==
  \/ ~openaiConfigured
  \/ last.result.api \in {<<"threw">>, <<"empty">>, <<"fenced">>, <<"prose">>}

\* C21: for a premium caller who sends a snapshot, when the external API is
\* unconfigured, throws, returns empty content or returns text that does not
\* parse, the response is a success carrying the fallback insights of that
\* snapshot, and the API was asked at most once.
C21_FallbackOnExternalFailure ==
  /\ last.op = "POST" => Len(last.result.api) <= 1
  /\ (PastTheChecks /\ ExternalFailure) =>
       /\ last.result.status = 200
       /\ last.list = generateFallbackInsights(last.arg)
       /\ Len(last.list) = 4

C21_Witness ==
  /\ PastTheChecks
  /\ last.result.api = <<"prose">>
  /\ last.result.status = 200
  /\ last.arg.risk_level = "high"
  /\ last.list[1].title = "Budget Critical"

IsInsight(x) == DOMAIN x = {"icon", "title", "description", "type"}

\* C22: every successful response of the endpoint carries exactly 4 insight
\* records, each with icon, title, description and type.
C22_FourInsights ==
  (last.op = "POST" /\ last.result.status = 200) =>
    /\ Len(last.list) = 4
    /\ \A i \in DOMAIN last.list : IsInsight(last.list[i])

(* ---------------- invariants of the premium workflow ---------------- *)
\* C26: after any sequence of approvals, rejections, upgrades and downgrades
\* every profile has is_premium = true exactly when premium_type is lifetime
\* exactly when premium_since is set.
C26_ProfileConsistent ==
  \A u \in Users :
    /\ profiles[u].is_premium <=> profiles[u].premium_type = "lifetime"
    /\ profiles[u].is_premium <=> profiles[u].premium_since # NoTime

C26_Witness ==
  /\ last.op = "downgradeToFree"
  /\ last.result = "success"
  /\ last.caller \in Admins
  /\ profiles[last.caller] = FreeProfile
  /\ \E u \in Users \ Admins : profiles[u].is_premium /\ profiles[u].premium_since # NoTime

\* C27: a request is pending exactly when its reviewed_by and reviewed_at are
\* both unset, and a request whose status, reviewer or review time changes
\* becomes approved or rejected with the caller of that call as reviewed_by.
C27_ReviewMetadata ==
  [][\A i \in DOMAIN premium_requests' :
       LET new == premium_requests'[i]
       IN /\ new.status = "pending" <=> (new.reviewed_by = NoUser /\ new.reviewed_at = NoTime)
          /\ new.status = "pending" \/ (new.reviewed_by # NoUser /\ new.reviewed_at # NoTime)
          /\ (i \in DOMAIN premium_requests /\ new # premium_requests[i]) =>
               /\ last'.op \in {Approve, Reject}
               /\ Reviewed(new)
               /\ new.reviewed_by = last'.caller]_vars

C27_Witness ==
  /\ last.op = Reject
  /\ last.result = "success"
  /\ last.arg \in DOMAIN premium_requests
  /\ premium_requests[last.arg].status = "rejected"
  /\ premium_requests[last.arg].reviewed_by = last.caller
  /\ premium_requests[last.arg].reviewed_at # NoTime
  /\ \E i \in DOMAIN premium_requests : premium_requests[i].status = "pending"

\* C30: when submitPremiumRequest stored the proof and the insert of the row
\* fails, the call returns an error, adds no row and leaves the artifact in
\* the bucket; every request row references an artifact that is stored under
\* its owner's identity, and no step removes an artifact.
C30_ArtifactWithoutRow ==
  [][/\ (last'.op = Submit /\ last'.fault = "insert") =>
          /\ last'.result = "Failed to submit premium request"
          /\ premium_requests' = premium_requests
          /\ storage' # storage
     /\ storage \subseteq storage'
     /\ \A i \in DOMAIN premium_requests' :
          /\ premium_requests'[i].payment_proof_url \in storage'
          /\ premium_requests'[i].payment_proof_url.owner = premium_requests'[i].user_id]_vars

C30_Witness ==
  /\ last.op = Submit
  /\ last.fault = "insert"
  /\ last.result = "Failed to submit premium request"
  /\ premium_requests = <<>>
  /\ \E f \in storage : f.owner = last.caller

(* ---------------- the dashboard page ---------------- *)
\* loads in flight and reload timers pending, together
MaxLoads == 2

ClientFrame ==
  UNCHANGED <<profiles, premium_requests, storage, now, budgets, calls, ledgerVars, insightVars>>

\* what getBudgetSummary returns to the caller from the store as it is
SummaryOf(caller) ==
  LET id == Single(BudgetIdsOf(caller))
      period == IF id # NoBudget THEN budgets[id].period ELSE "monthly"
      rows == ExpensesBetween(caller, toISODate(periodStart(period), 0),
                              toISODate(periodEnd(period), 0))
      totalSpent == SumAmounts(rows)
      budgetAmount == IF id # NoBudget THEN budgets[id].amount ELSE 0
  IN [budget |-> IF id # NoBudget THEN budgets[id] ELSE NoBudgetRow,
      totalSpent |-> totalSpent,
      remaining |-> remaining(totalSpent, budgetAmount),
      percentageUsed |-> percentageUsed(totalSpent, budgetAmount),
      expenses |-> DateDescending(rows)]

\* what getExpenses() returns to the caller: every own expense, newest first
ExpensesOf(caller) ==
  DateDescending({e \in expenses : CanSelectExpense(caller, e) /\ e.user_id = caller})

\* profile?.is_premium ?? false, for what getUserProfile returns
ProfileRead(select) == select = "ok" /\ profiles[browser.session].is_premium

\* the useState initialisers of DashboardPage
DashboardPage0 ==
  [mounted |-> TRUE, loading |-> TRUE, budget |-> NoBudgetRow, totalSpent |-> 0,
   remaining |-> 0, percentageUsed |-> Frac(0, 1), expenses |-> <<>>, isPremium |-> FALSE,
   loads |-> <<>>, timers |-> 0]

\* loadBudgetData up to its await: setLoading(true), and the two server
\* actions read the store for the session's user
Requested(d, isPremium) ==
  [d EXCEPT !.loading = TRUE,
            !.loads = Append(@, [summary |-> SummaryOf(browser.session),
                                 isPremium |-> isPremium])]

Pending(d) == Len(d.loads) + d.timers

Without(seq, i) == SubSeq(seq, 1, i - 1) \o SubSeq(seq, i + 1, Len(seq))

\* the useState initialisers of AIInsights; pc is the position of a running
\* generateInsights, forceRefresh its argument
AIInsights0 ==
  [mounted |-> TRUE, insights |-> <<>>, financialData |-> NoData, loading |-> FALSE,
   error |-> "null", lastUpdated |-> -1, pc |-> "idle", forceRefresh |-> FALSE]

\* While loading is set the page renders a spinner in place of its content:
\* the forms, the expense list and AIInsights are mounted when it is cleared.
Hidden == [browser EXCEPT !.AIInsights = Unmounted]
Revealed == IF dashboard.loading THEN [browser EXCEPT !.AIInsights = AIInsights0] ELSE browser

\* the page is rendered for the logged-in user, and its effect calls loadBudgetData
DashboardPage ==
  /\ browser.session \in Users
  /\ ~dashboard.mounted
  /\ \E select \in Outcomes : dashboard' = Requested(DashboardPage0, ProfileRead(select))
  /\ ClientFrame
  /\ UNCHANGED <<last, browser, dialogs>>

\* setTimeout(loadBudgetData, 500) fires
loadBudgetData ==
  /\ dashboard.mounted
  /\ dashboard.timers > 0
  /\ \E select \in Outcomes :
       dashboard' = Requested([dashboard EXCEPT !.timers = @ - 1], ProfileRead(select))
  /\ browser' = Hidden
  /\ ClientFrame
  /\ UNCHANGED <<last, dialogs>>

\* the answers of the i-th load in flight arrive: loadBudgetData after its await
loadBudgetData_resume(i) ==
  /\ dashboard.mounted
  /\ i \in DOMAIN dashboard.loads
  /\ LET r == dashboard.loads[i]
     IN dashboard' = [dashboard EXCEPT !.budget = r.summary.budget,
                                       !.totalSpent = r.summary.totalSpent,
                                       !.remaining = r.summary.remaining,
                                       !.percentageUsed = r.summary.percentageUsed,
                                       !.expenses = r.summary.expenses,
                                       !.isPremium = r.isPremium,
                                       !.loading = FALSE,
                                       !.loads = Without(@, i)]
  /\ browser' = Revealed
  /\ ClientFrame
  /\ UNCHANGED <<last, dialogs>>

\* the forms can be used: the content is on the page and no answer is awaited
Usable == dashboard.mounted /\ ~dashboard.loading

\* a server action has answered and the component's callback has not run yet
ExpenseAdded == last.op = "addExpense" /\ last.result = "success"
ExpenseDeleted == last.op = "deleteExpense" /\ last.result = "success"

\* onExpenseAdded(result.expense)
handleExpenseAdded ==
  LET expense == last.list[1]
      newTotal == dashboard.totalSpent + expense.amount
      budget == dashboard.budget
  IN
  /\ dashboard.mounted
  /\ ExpenseAdded
  /\ Pending(dashboard) < MaxLoads
  /\ dashboard' =
       [dashboard EXCEPT
          !.expenses = <<expense>> \o @,
          !.totalSpent = newTotal,
          !.remaining = IF budget # NoBudgetRow THEN remaining(newTotal, budget.amount) ELSE @,
          !.percentageUsed = IF budget # NoBudgetRow THEN percentageUsed(newTotal, budget.amount)
                             ELSE @,
          !.timers = @ + 1]
  /\ last' = NoCall
  /\ ClientFrame
  /\ UNCHANGED <<browser, dialogs>>

\* onExpenseDeleted()
handleExpenseDeleted ==
  /\ dashboard.mounted
  /\ ExpenseDeleted
  /\ Pending(dashboard) < MaxLoads
  /\ \E select \in Outcomes : dashboard' = Requested(dashboard, ProfileRead(select))
  /\ browser' = Hidden
  /\ last' = NoCall
  /\ ClientFrame
  /\ UNCHANGED dialogs

\* budgets and expenses of a dashboard session: u1 has a monthly budget
InitDashboard ==
  /\ profiles = [u \in Users |-> IF u \in Admins THEN LifetimeProfile(1) ELSE FreeProfile]
  /\ premium_requests = <<>>
  /\ storage = {}
  /\ now = 2
  /\ budgets = <<NewBudget("u1", 5000, "monthly")>>
  /\ calls = [s \in Slots |-> IdleCall]
  /\ last = NoCall
  /\ expenses = {}
  /\ expenseSeq = 1
  /\ today = 61
  /\ hour = 12
  /\ tz = 0
  /\ openaiConfigured = FALSE
  /\ financialData = NoData
  /\ fallbackLog = <<>>
  /\ browser = [Browser0 EXCEPT !.session = "u1"]
  /\ dashboard = Unmounted
  /\ dialogs = Unmounted

NextDashboard ==
  \/ DashboardPage
  \/ loadBudgetData
  \/ \E i \in 1..MaxLoads : loadBudgetData_resume(i)
  \/ /\ Usable /\ ~ExpenseAdded /\ ~ExpenseDeleted
     /\ \E x \in ExpenseInputs : addExpense(browser.session, x[1], x[2], x[3])
  \/ handleExpenseAdded
  \/ /\ Usable /\ ~ExpenseAdded /\ ~ExpenseDeleted
     /\ \E id \in 1..MaxExpenses : deleteExpense(browser.session, id)
  \/ handleExpenseDeleted

SpecDashboard == InitDashboard /\ [][NextDashboard]_vars

(* ---------------- claims on the dashboard ---------------- *)
Settled ==
  /\ dashboard.mounted
  /\ Pending(dashboard) = 0
  /\ ~ExpenseAdded
  /\ ~ExpenseDeleted

\* C29: once no load is in flight, no reload is scheduled and every event has
\* been handled, the displayed totalSpent, remaining and percentageUsed are
\* those of the store's current getBudgetSummary.
C29_DashboardConverges ==
  Settled =>
    /\ dashboard.totalSpent = SummaryOf(browser.session).totalSpent
    /\ dashboard.remaining = SummaryOf(browser.session).remaining
    /\ dashboard.percentageUsed = SummaryOf(browser.session).percentageUsed

(* ---------------- the browser: session, clock, insight cache ---------------- *)
\* the browser's clock counts hours: 24 * 60 * 60 * 1000 ms are 24 of them
CACHE_DURATION == 24
MaxClock == 24

\* localStorage.setItem(CACHE_KEY, JSON.stringify({ data, insights, timestamp }))
CacheEntry(data, insights, timestamp) ==
  [data |-> data, insights |-> insights, timestamp |-> timestamp]

\* variant: an entry of exactly CACHE_DURATION still counts as fresh
CacheIsFresh_atDuration(cached) == browser.clock - cached.timestamp <= CACHE_DURATION

\* Date.now() - timestamp < CACHE_DURATION
CacheIsFresh(cached) == browser.clock - cached.timestamp < CACHE_DURATION

\* signInWithPassword, then the session cookie is set
login(u) ==
  /\ browser.session = NoUser
  /\ \E signIn \in Outcomes :
       browser' = IF signIn = "error" THEN browser ELSE [browser EXCEPT !.session = u]
  /\ ClientFrame
  /\ UNCHANGED <<last, dashboard, dialogs>>

\* signOut, then redirect("/login"): the dashboard leaves the page,
\* localStorage is not touched
logout ==
  /\ browser.session \in Users
  /\ \E signOut \in Outcomes :
       IF signOut = "error" THEN UNCHANGED <<browser, dashboard>>
       ELSE /\ browser' = [browser EXCEPT !.session = NoUser, !.AIInsights = Unmounted]
            /\ dashboard' = Unmounted
  /\ ClientFrame
  /\ UNCHANGED <<last, dialogs>>

\* time passes in the browser
tick ==
  /\ browser.clock + 12 <= MaxClock
  /\ browser' = [browser EXCEPT !.clock = @ + 12]
  /\ ClientFrame
  /\ UNCHANGED <<last, dashboard, dialogs>>

\* generateInsights up to its first await: the premium gate and the cache
generateInsights(forceRefresh) ==
  LET ai == browser.AIInsights
      cached == browser.localStorage
      op(res) == Ret("generateInsights", browser.session, forceRefresh, "none", res, <<>>)
  IN
  /\ dashboard.mounted
  /\ ai.mounted
  /\ ai.pc = "idle"
  /\ ClientFrame
  /\ UNCHANGED <<dashboard, dialogs>>
  /\ IF ~dashboard.isPremium THEN
       /\ last' = op("not premium")
       /\ UNCHANGED browser
     ELSE IF ~forceRefresh /\ cached # NoCache /\ CacheIsFresh(cached) THEN
       /\ last' = op("cached")
       /\ browser' = [browser EXCEPT !.AIInsights =
            [ai EXCEPT !.financialData = cached.data, !.insights = cached.insights,
                       !.lastUpdated = cached.timestamp, !.loading = FALSE, !.error = "null"]]
     ELSE
       /\ last' = op("started")
       /\ browser' = [browser EXCEPT !.AIInsights =
            [ai EXCEPT !.loading = TRUE, !.error = "null", !.pc = "computing",
                       !.forceRefresh = forceRefresh]]

Computing == browser.AIInsights.mounted /\ browser.AIInsights.pc = "computing"
Fetching == browser.AIInsights.mounted /\ browser.AIInsights.pc = "fetching"
Idle == browser.AIInsights.mounted => browser.AIInsights.pc = "idle"

\* generateInsights after calculateFinancialData: setFinancialData(data), and
\* the request is sent
generateInsights_request ==
  /\ Computing
  /\ last.op = "calculateFinancialData"
  /\ browser' = [browser EXCEPT !.AIInsights.financialData = financialData,
                                !.AIInsights.pc = "fetching"]
  /\ ClientFrame
  /\ UNCHANGED <<last, dashboard, dialogs>>

\* generateInsights after the fetch: the answer is shown and cached, or the
\* error is shown; finally loading is cleared
generateInsights_response ==
  LET ai == browser.AIInsights
      op(fault, res, insights) ==
        Ret("generateInsights", browser.session, ai.forceRefresh, fault, res, insights)
  IN
  /\ Fetching
  /\ last.op = "POST"
  /\ ClientFrame
  /\ UNCHANGED <<dashboard, dialogs>>
  /\ \E transport \in Outcomes :
       IF transport = "error" \/ last.result.status # 200 THEN
         /\ last' = op(IF transport = "error" THEN "fetch" ELSE "status", "failed", <<>>)
         /\ browser' = [browser EXCEPT !.AIInsights =
              [ai EXCEPT !.error = "Failed to generate insights", !.loading = FALSE,
                         !.pc = "idle"]]
       ELSE
         /\ last' = op("none", "requested", last.list)
         /\ browser' = [browser EXCEPT
              !.localStorage = CacheEntry(financialData, last.list, browser.clock),
              !.AIInsights = [ai EXCEPT !.insights = last.list,
                                        !.lastUpdated = browser.clock,
                                        !.loading = FALSE, !.pc = "idle"]]

\* two users with a budget and an expense each; u2 may have been upgraded
InitClient ==
  /\ profiles \in {[u \in Users |-> IF u \in Admins THEN LifetimeProfile(1) ELSE p] :
                     p \in {FreeProfile, LifetimeProfile(1)}}
  /\ premium_requests = <<>>
  /\ storage = {}
  /\ now = 2
  /\ budgets = <<NewBudget("u2", 1000, "weekly"), NewBudget("u1", 5000, "monthly")>>
  /\ calls = [s \in Slots |-> IdleCall]
  /\ last = NoCall
  /\ expenses = {NewExpense(1, "u1", 2000, "Food", 61), NewExpense(2, "u2", 800, "Transport", 61)}
  /\ expenseSeq = 3
  /\ today = 61
  /\ hour = 12
  /\ tz = 0
  /\ openaiConfigured \in BOOLEAN
  /\ financialData = NoData
  /\ fallbackLog = <<>>
  /\ browser = Browser0
  /\ dashboard = Unmounted
  /\ dialogs = Unmounted

NextClient ==
  \/ \E u \in Users : login(u)
  \/ Idle /\ logout
  \/ tick
  \/ DashboardPage
  \/ \E i \in 1..MaxLoads : loadBudgetData_resume(i)
  \/ \E forceRefresh \in BOOLEAN : generateInsights(forceRefresh)
  \/ /\ Computing
     /\ last.op = "generateInsights"
     /\ calculateFinancialData(SummaryOf(browser.session), ExpensesOf(browser.session))
  \/ generateInsights_request
  \/ /\ Fetching
     /\ last.op = "calculateFinancialData"
     /\ POST(browser.session, financialData)
     /\ UNCHANGED fallbackLog
  \/ generateInsights_response
  \/ /\ Idle
     /\ \E c \in Callers : POST(c, financialData)
     /\ UNCHANGED fallbackLog
  \/ /\ Idle
     /\ browser.session \in Users
     /\ downgradeToFree(browser.session, NoArg)

SpecClient == InitClient /\ [][NextClient]_vars

(* ---------------- claims on the insights in the browser ---------------- *)
Shown == browser.AIInsights
Running == Shown.mounted /\ Shown.pc # "idle"

\* a step of generateInsights from its call to its first await or return
StartStep ==
  /\ Shown.mounted
  /\ Shown.pc = "idle"
  /\ last'.op = "generateInsights"
  /\ dashboard' = dashboard
  /\ browser'.session = browser.session
  /\ browser'.clock = browser.clock
  /\ (last' # last \/ browser' # browser)

\* a step of generateInsights from the answer of the fetch to its return
ResponseStep == Fetching /\ last'.op = "generateInsights"

RefusedWithoutWork(call) ==
  /\ call.result.status \in {401, 403, 500}
  /\ call.result.api = <<>>
  /\ call.list = <<>>

EndpointGate(call, rows) ==
  call.op = "POST" =>
    /\ (call.caller = NoUser \/ ~rows[call.caller].is_premium) => RefusedWithoutWork(call)
    /\ call.result.api # <<>> => (call.caller \in Users /\ rows[call.caller].is_premium)

\* C23, as claimed: while the profile of the logged-in user is not premium the
\* component computes no snapshot and sends no request, and the endpoint
\* refuses every caller who is not premium without calling the external API
\* or computing fallback insights.
C23_GatedOnProfile ==
  /\ Running => profiles[browser.session].is_premium
  /\ EndpointGate(last, profiles)

\* C23, amended: generateInsights returns at once, changing nothing, when the
\* premium flag the dashboard loaded is false, and goes on to compute and
\* request only when that flag is true; the endpoint refuses every caller
\* whose profile is not premium without calling the external API or computing
\* fallback insights, and calls the API only for an authenticated premium caller.
C23_GatedOnLoadedFlag ==
  [][/\ (StartStep /\ ~dashboard.isPremium) =>
          (browser' = browser /\ last'.result = "not premium")
     /\ (~Running /\ Running') => (StartStep /\ dashboard.isPremium)
     /\ EndpointGate(last', profiles')]_vars

C23_Witness ==
  /\ Fetching
  /\ last.op = "POST"
  /\ dashboard.isPremium
  /\ ~profiles[last.caller].is_premium
  /\ last.result.status = 403
  /\ last.result.api = <<>>

Young(cached) == cached # NoCache /\ browser.clock - cached.timestamp < CACHE_DURATION

\* C24: a call without forced refresh that finds an entry younger than 24
\* hours shows the entry's snapshot and insights and returns without a
\* request, leaving the entry as it is; a forced call, or one that finds no
\* entry or an entry of 24 hours or more, goes on to recompute and request,
\* shows the recomputed snapshot, and on success stores the new snapshot and
\* insights with the time of the answer; on failure the entry is kept.
C24_CacheFor24Hours ==
  [][LET cached == browser.localStorage
         forced == last'.arg
     IN
     /\ (StartStep /\ dashboard.isPremium /\ ~forced /\ Young(cached)) =>
          /\ last'.result = "cached"
          /\ browser'.AIInsights.financialData = cached.data
          /\ browser'.AIInsights.insights = cached.insights
          /\ browser'.AIInsights.pc = "idle"
          /\ browser'.localStorage = cached
     /\ (StartStep /\ dashboard.isPremium /\ (forced \/ ~Young(cached))) =>
          /\ last'.result = "started"
          /\ browser'.AIInsights.pc = "computing"
     /\ (Computing /\ Fetching') =>
          /\ last.op = "calculateFinancialData"
          /\ browser'.AIInsights.financialData = financialData
     /\ ResponseStep =>
          /\ (last.result.status = 200 /\ last'.fault = "none") => last'.result = "requested"
          /\ IF last'.result = "requested"
               THEN /\ browser'.localStorage.data = financialData
                    /\ browser'.localStorage.insights = last.list
                    /\ browser'.localStorage.timestamp = browser.clock
                    /\ browser'.AIInsights.insights = last.list
               ELSE browser'.localStorage = cached]_vars

C24_Witness ==
  /\ Shown.mounted
  /\ last.op = "generateInsights"
  /\ last.result = "cached"
  /\ browser.clock - browser.localStorage.timestamp = 12
  /\ Shown.financialData = browser.localStorage.data
  /\ Shown.insights = browser.localStorage.insights
  /\ Shown.pc = "idle"

\* the snapshot of the user's own budget and expenses
OwnSnapshot(u) == FinancialData(SummaryOf(u), ExpensesOf(u))

\* C28: the snapshot shown to the logged-in user is the snapshot of that
\* user's own budget and expenses.
C28_OwnSnapshotShown ==
  (Shown.mounted /\ Shown.financialData # NoData) =>
    Shown.financialData = OwnSnapshot(browser.session)

(* ---------------- the components that issue the mutating actions ---------------- *)
\* submitStatus: null
NoStatus == [null |-> TRUE]
NoId == 0

\* UpgradeModal (selectedFile, isSubmitting, submitStatus), AdminPage
\* (requests, error, processingId), ExpenseList (deletingId, and the text of
\* the alert its last handleDelete raised), AddExpenseForm (saving, message);
\* awaiting names the server action a handler is waiting for
Dialogs0 ==
  [mounted |-> TRUE, awaiting |-> "none",
   selectedFile |-> NoFile, isSubmitting |-> FALSE, submitStatus |-> NoStatus,
   requests |-> <<>>, error |-> "null", processingId |-> NoId,
   deletingId |-> NoId, alert |-> "none",
   saving |-> FALSE, message |-> ""]

\* obj?.name is undefined, and so not truthy, when the object is null or has
\* no such property
Has(obj, name) == name \in DOMAIN obj

\* submitStatus?.success
StatusSuccess(st) == Has(st, "success") /\ st.success

\* submitStatus?.error
StatusError(st) == Has(st, "error") /\ st.error # ""

\* the red line of the upload step: {submitStatus?.error && <p>{submitStatus.message}</p>},
\* rendered when the green panel is not
UpgradeModal_errorText ==
  LET st == dialogs.submitStatus
  IN IF ~StatusSuccess(st) /\ StatusError(st) THEN st.message ELSE "none"

DialogFrame == ClientFrame /\ UNCHANGED <<browser, dashboard>>

Begin(d, action) == [d EXCEPT !.awaiting = action]
Ready == dialogs.mounted /\ dialogs.awaiting = "none"
Answered(action, op) == dialogs.mounted /\ dialogs.awaiting = action /\ last.op = op
Called(action) == dialogs.mounted /\ dialogs.awaiting = action /\ last = NoCall

handleFileSelect(file) ==
  /\ Ready
  /\ dialogs' = [dialogs EXCEPT !.selectedFile = file]
  /\ DialogFrame
  /\ UNCHANGED last

\* UpgradeModal.handleSubmit up to its await
UpgradeModal_handleSubmit ==
  /\ Ready
  /\ DialogFrame
  /\ IF dialogs.selectedFile = NoFile THEN UNCHANGED <<dialogs, last>>
     ELSE /\ dialogs' = [Begin(dialogs, "submit") EXCEPT !.isSubmitting = TRUE,
                                                        !.submitStatus = NoStatus]
          /\ last' = NoCall

\* UpgradeModal.handleSubmit after submitPremiumRequest answered
UpgradeModal_handleSubmit_resume ==
  /\ Answered("submit", Submit)
  /\ dialogs' = [Begin(dialogs, "none") EXCEPT
       !.submitStatus = IF last.result # "success"
                          THEN [success |-> FALSE, message |-> last.result]
                          ELSE [success |-> TRUE, message |-> "Request submitted!"],
       !.isSubmitting = FALSE]
  /\ DialogFrame
  /\ UNCHANGED last

\* AdminPage.handleApprove and handleReject up to their await
handleApprove(requestId) ==
  /\ Ready
  /\ dialogs' = [Begin(dialogs, "approve") EXCEPT !.processingId = requestId]
  /\ last' = NoCall
  /\ DialogFrame

handleReject(requestId) ==
  /\ Ready
  /\ dialogs' = [Begin(dialogs, "reject") EXCEPT !.processingId = requestId]
  /\ last' = NoCall
  /\ DialogFrame

\* after the answer: the error is set, or loadRequests is awaited
handleApprove_resume ==
  /\ Answered("approve", Approve)
  /\ dialogs' = IF last.result # "success"
                  THEN [Begin(dialogs, "none") EXCEPT !.error = last.result,
                                                      !.processingId = NoId]
                  ELSE Begin(dialogs, "loadRequests")
  /\ DialogFrame
  /\ UNCHANGED last

handleReject_resume ==
  /\ Answered("reject", Reject)
  /\ dialogs' = IF last.result # "success"
                  THEN [Begin(dialogs, "none") EXCEPT !.error = last.result,
                                                      !.processingId = NoId]
                  ELSE Begin(dialogs, "loadRequests")
  /\ DialogFrame
  /\ UNCHANGED last

\* loadRequests after getPendingRequests answered, and the end of the handler
loadRequests_resume ==
  /\ Answered("loadRequests", GetPending)
  /\ dialogs' = [Begin(dialogs, "none") EXCEPT !.requests = last.list,
                                               !.processingId = NoId]
  /\ DialogFrame
  /\ UNCHANGED last

\* ExpenseList.handleDelete, confirmed, up to its await
handleDelete(id) ==
  /\ Ready
  /\ dialogs' = [Begin(dialogs, "delete") EXCEPT !.deletingId = id, !.alert = "none"]
  /\ last' = NoCall
  /\ DialogFrame

handleDelete_resume ==
  /\ Answered("delete", "deleteExpense")
  /\ dialogs' = [Begin(dialogs, "none") EXCEPT
       !.alert = IF last.result = "success" THEN @ ELSE last.result,
       !.deletingId = NoId]
  /\ DialogFrame
  /\ UNCHANGED last

\* AddExpenseForm.handleSubmit up to its await
AddExpenseForm_handleSubmit ==
  /\ Ready
  /\ dialogs' = [Begin(dialogs, "add") EXCEPT !.saving = TRUE, !.message = ""]
  /\ last' = NoCall
  /\ DialogFrame

AddExpenseForm_handleSubmit_resume ==
  /\ Answered("add", "addExpense")
  /\ dialogs' = [Begin(dialogs, "none") EXCEPT
       !.message = IF last.result = "success" /\ last.list # <<>>
                     THEN "Expense added successfully!" ELSE last.result,
       !.saving = FALSE]
  /\ DialogFrame
  /\ UNCHANGED last

\* the components are on the page of a logged-in user, or of one whose
\* session has ended since
InitDialogs ==
  /\ profiles = [u \in Users |-> IF u \in Admins THEN LifetimeProfile(1) ELSE FreeProfile]
  /\ premium_requests = <<>>
  /\ storage = {}
  /\ now = 2
  /\ budgets = <<>>
  /\ calls = [s \in Slots |-> IdleCall]
  /\ last = NoCall
  /\ expenses = {}
  /\ expenseSeq = 1
  /\ today = 61
  /\ hour = 12
  /\ tz = 0
  /\ openaiConfigured = FALSE
  /\ financialData = NoData
  /\ fallbackLog = <<>>
  /\ browser \in {[Browser0 EXCEPT !.session = c] : c \in Callers}
  /\ dashboard = Unmounted
  /\ dialogs = Dialogs0

NextDialogs ==
  \/ \E file \in FileExts : handleFileSelect(file)
  \/ UpgradeModal_handleSubmit
  \/ /\ Called("submit")
     /\ \E fd \in FormDatas :
          /\ fd.payment_proof = dialogs.selectedFile
          /\ fd.amount_paid = PRICE
          /\ submitPremiumRequest(browser.session, fd)
  \/ UpgradeModal_handleSubmit_resume
  \/ \E id \in 1..MaxReq : handleApprove(id)
  \/ Called("approve") /\ approvePremiumRequest(browser.session, dialogs.processingId)
  \/ handleApprove_resume
  \/ \E id \in 1..MaxReq : handleReject(id)
  \/ Called("reject") /\ rejectPremiumRequest(browser.session, dialogs.processingId)
  \/ handleReject_resume
  \/ /\ dialogs.mounted
     /\ dialogs.awaiting = "loadRequests"
     /\ last.op \in {Approve, Reject}
     /\ getPendingRequests(browser.session)
  \/ loadRequests_resume
  \/ \E id \in 1..MaxExpenses : handleDelete(id)
  \/ Called("delete") /\ deleteExpense(browser.session, dialogs.deletingId)
  \/ handleDelete_resume
  \/ AddExpenseForm_handleSubmit
  \/ /\ Called("add")
     /\ \E x \in ExpenseInputs : addExpense(browser.session, x[1], x[2], x[3])
  \/ AddExpenseForm_handleSubmit_resume

SpecDialogs == InitDialogs /\ [][NextDialogs]_vars

(* ---------------- claims on the components ---------------- *)
Returned(op) == dialogs.mounted /\ dialogs.awaiting = "none" /\ last.op = op
FailureReturned(op) == Returned(op) /\ last.result # "success"

SubmitFailureShown ==
  FailureReturned(Submit) => (UpgradeModal_errorText = last.result /\ ~dialogs.isSubmitting)

ReviewFailureShown ==
  (FailureReturned(Approve) \/ FailureReturned(Reject)) =>
    (dialogs.error = last.result /\ dialogs.processingId = NoId)

DeleteFailureShown ==
  FailureReturned("deleteExpense") => (dialogs.alert = last.result /\ dialogs.deletingId = NoId)

AddFailureShown ==
  FailureReturned("addExpense") => (dialogs.message = last.result /\ ~dialogs.saving)

\* C25: when add expense, delete expense, submit premium request, approve or
\* reject has returned a failure to the component that issued it, the
\* component displays the failure message and its in-progress flag is cleared.
C25_FailureShown ==
  /\ SubmitFailureShown
  /\ ReviewFailureShown
  /\ DeleteFailureShown
  /\ AddFailureShown

\* the failures of every component but the upgrade dialog
OtherFailuresShown ==
  /\ ReviewFailureShown
  /\ DeleteFailureShown
  /\ AddFailureShown
  /\ FailureReturned(Submit) => ~dialogs.isSubmitting

====
